---- MODULE Spec2Model ----
(***************************************************************************)
(* A model of llama's SampleChunker (llama/sample_chunker.py) and          *)
(* InfluxDBPusher (llama/influxdb.py).                                     *)
(*                                                                         *)
(* Both classes run on one asyncio event loop: a synchronous method (push, *)
(* a call_later callback) is one atomic step, and a coroutine is one step  *)
(* from each suspension point (await) to the next.                         *)
(***************************************************************************)
EXTENDS Integers, Sequences, FiniteSets, TLC

(***************************************************************************)
(* Bounds of the model.                                                    *)
(***************************************************************************)
\* target_bin_size is drawn from 1 .. MaxTargetSize at construction.
MaxTargetSize == 2
\* Number of SampleChunker.push calls in a behaviour.
MaxPushes == 3
\* Number of get_new / get_latest calls in a behaviour.
MaxCalls == 2
\* Number of bin timer expiries in a behaviour.
MaxExpiries == 1
\* Number of InfluxDBPusher.push calls beyond the queue's capacity.
MaxOverflow == 2

(***************************************************************************)
(* Program constants.                                                      *)
(***************************************************************************)
\* self._last_point = None
None == -1
\* asyncio.Queue(128, loop=self._loop)
QueueCapacity == 128
\* if resp.status != 204
StatusNoContent == 204

\* Measurement values: one that Python counts as false and one it counts as true.
Values == {0, 1}

\* Field names and value mappings handed to InfluxDBPusher.push; neither push nor
\* the queue looks inside them.
Fields == {"temp"}
Stats == {<<42>>}

\* Values of the --influxdb-endpoint and --influxdb-tags arguments: not given
\* (default=None), given as the empty string, given with a value.
EndpointArgs == {<<>>, <<"">>, <<"http://localhost:8086/write?db=mydb">>}
TagsArgs == {<<>>, <<"">>, <<"loc=lab1">>}

\* Strings that get formatted are sequences of characters. Field names: plain
\* ones, one with a comma, one with a space.
WireFields ==
    { <<"t", "e", "m", "p">>, <<"m">>, <<"m", ",", "h", "=", "a">>, <<"a", " ", "b">> }

\* Tag strings, as given with --influxdb-tags.
WireTags ==
    { <<"l", "o", "c", "=", "l", "a", "b", "1">>, <<"l", "=", "1">>,
      <<"h", "=", "a", ",", "l", "=", "1">> }

\* Value mappings, as sequences of <<key, value>> in the mapping's order.
WireStats ==
    { <<>>,
      << <<(<<"v", "a", "l", "u", "e">>), 42>> >>,
      << <<(<<"m", "i", "n">>), -1>>, <<(<<"m", "a", "x">>), 7>> >>,
      << <<(<<"a">>), 1>>, <<(<<"b">>), 2>> >>,
      << <<(<<"a", "=", "1", ",", "b">>), 2>> >> }

\* time.time() values, in half nanoseconds: exact, just below .5, .5 above an even
\* and above an odd number of nanoseconds.
WireTimestamps == {0, 4, 5, 7, 2000000001}

\* HTTP response statuses: 204 No Content, and one that is not.
Statuses == {StatusNoContent, 500}

VARIABLES
    \* ---- SampleChunker ----
    target_bin_size,     \* self.target_bin_size
    lists,               \* the list objects ever bound to self._points, by identity
    points,              \* self._points: the identity (index in lists) of the current bin
    last_point,          \* self._last_point
    waiting_for_values,  \* self._waiting_for_values: futures, by the call that made them
    calls,               \* get_new / get_latest invocations and the Future each awaits
    timeout,             \* self._timeout: the handle call_later returned last
    scheduled,           \* handles pending in the event loop (not fired, not cancelled)
    timerSeq,            \* number of call_later calls so far (the newest handle)
    finished,            \* the invocations of self.bin_finished, in order
    pushed,              \* values passed to push, in order
    pushRaised,          \* whether the last push raised (InvalidStateError)
    nSizeReached,        \* pushes after which len(self._points) == target_bin_size
    nExpiredNonEmpty,    \* timer expiries that found self._points non-empty
    nExpiredEmpty,       \* timer expiries that found self._points empty
    \* ---- InfluxDBPusher ----
    queue,               \* self._queue
    now,                 \* time.time(), in ticks
    runPc,               \* where the run() coroutine is
    current,             \* (field, stats, timestamp) of the iteration in progress
    inflight,            \* POSTs issued and not yet completed
    posts,               \* points for which client.post was called, in order
    lastOutcome,         \* how the last POST ended: "ok", "rejected" (not 204), "error"
    warned,              \* whether run() logged a warning for the last POST
    cancelRequested,     \* t.cancel() has been called on the run() task
    accepted,            \* points put_nowait accepted, in order
    nPushCalls,          \* InfluxDBPusher.push calls so far
    nDropped,            \* points dropped on QueueFull
    lastPush,            \* what the last InfluxDBPusher.push did
    \* ---- run_simple_rpc_server ----
    influxdb_endpoint,   \* args.influxdb_endpoint: <<>> for None, else <<string>>
    influxdb_tags,       \* args.influxdb_tags: <<>> for None, else <<string>>
    influx_pusher,       \* what influxdb_pusher_from_args gave: "unset" before the call
    bootPc,              \* where run_simple_rpc_server is
    stopPc,              \* where the atexit hook stop() is
    \* ---- InfluxDBPusher.run, building the request body ----
    wirePoint,           \* the dequeued point: field, stats (key/value pairs in the
                         \* mapping's order), timestamp (time.time(), in half nanoseconds)
    wireTags,            \* self.tags
    body,                \* the POST body, a sequence of characters
    wirePc               \* "dequeued" before the body is built, "formatted" after

chunkerVars == <<target_bin_size, lists, points, last_point, waiting_for_values,
                 calls, timeout, scheduled, timerSeq, finished, pushed, pushRaised,
                 nSizeReached, nExpiredNonEmpty, nExpiredEmpty>>

pusherVars == <<queue, now, runPc, current, inflight, posts, lastOutcome, warned,
                cancelRequested, accepted, nPushCalls, nDropped, lastPush>>

serverVars == <<influxdb_endpoint, influxdb_tags, influx_pusher, bootPc, stopPc>>

wireVars == <<wirePoint, wireTags, body, wirePc>>

vars == <<chunkerVars, pusherVars, serverVars, wireVars>>

(***************************************************************************)
(* Python helpers.                                                         *)
(***************************************************************************)
\* Python truth value of self._last_point, as tested by "not self._last_point".
Truthy(x) == x # None /\ x # 0

\* The contents of the current bin.
Bin == lists[points]

(***************************************************************************)
(* SampleChunker, as a record of its fields, so that a method is the       *)
(* composition of its statements.                                          *)
(***************************************************************************)
Chunker ==
    [lists |-> lists, points |-> points, last_point |-> last_point,
     waiting_for_values |-> waiting_for_values, calls |-> calls,
     timeout |-> timeout, scheduled |-> scheduled, timerSeq |-> timerSeq,
     finished |-> finished, raised |-> FALSE]

SetChunker(s) ==
    /\ lists' = s.lists
    /\ points' = s.points
    /\ last_point' = s.last_point
    /\ waiting_for_values' = s.waiting_for_values
    /\ calls' = s.calls
    /\ timeout' = s.timeout
    /\ scheduled' = s.scheduled
    /\ timerSeq' = s.timerSeq
    /\ finished' = s.finished

\* _schedule_timeout: self._timeout = self._loop.call_later(...)
ScheduleTimeout(s) ==
    [s EXCEPT !.timerSeq = s.timerSeq + 1,
              !.timeout = s.timerSeq + 1,
              !.scheduled = s.scheduled \cup {s.timerSeq + 1}]

\* self._timeout.cancel()
CancelTimeout(s) == [s EXCEPT !.scheduled = s.scheduled \ {s.timeout}]

\* self.bin_finished(self._points): the callback receives the list object itself;
\* the log keeps its identity, its contents at the call, and what the callback
\* could observe while it ran: the waiters still registered, which futures were
\* still pending, _last_point, and the timer handles still pending.
InvokeBinFinished(s, nPushed) ==
    [s EXCEPT !.finished = Append(s.finished,
        [arg |-> s.points, bin |-> s.lists[s.points], atPush |-> nPushed,
         waiters |-> s.waiting_for_values,
         pending |-> {c \in 1 .. Len(s.calls) : s.calls[c].fut = "pending"},
         last_point |-> s.last_point, scheduled |-> s.scheduled])]

\* The bin emptied in place (self._points.clear()): the list object handed to the
\* callback is the one that goes on collecting values.
NewBinClearsInPlace(s) == [s EXCEPT !.lists[s.points] = <<>>]

\* self._points = []: a new list object is bound, the old one is left as it is.
NewBin(s) ==
    [s EXCEPT !.lists = Append(s.lists, <<>>), !.points = Len(s.lists) + 1]

\* _finish_bin without "self._timeout.cancel()": the old timer stays pending.
FinishBinLeavesTimer(s, nPushed) ==
    ScheduleTimeout(NewBin(InvokeBinFinished(s, nPushed)))

\* _finish_bin without "self._points = []": the finished values stay in the bin.
FinishBinKeepsValues(s, nPushed) ==
    ScheduleTimeout(InvokeBinFinished(CancelTimeout(s), nPushed))

\* _finish_bin (its assert holds at its only call site, after an append).
FinishBin(s, nPushed) ==
    ScheduleTimeout(NewBin(InvokeBinFinished(CancelTimeout(s), nPushed)))

\* self._points.append(value); self._last_point = value
AppendPoint(s, value) ==
    [s EXCEPT !.lists[s.points] = Append(s.lists[s.points], value),
              !.last_point = value]

\* for f in self._waiting_for_values: f.set_result(value)
\* Future.set_result raises InvalidStateError on a future that is not pending
\* (already resolved, or cancelled); the exception leaves the loop and push.
RECURSIVE SetResults(_, _, _)
SetResults(s, i, value) ==
    IF i > Len(s.waiting_for_values) THEN s
    ELSE LET f == s.waiting_for_values[i] IN
         IF s.calls[f].fut # "pending" THEN [s EXCEPT !.raised = TRUE]
         ELSE SetResults([s EXCEPT !.calls[f].fut = "done",
                                   !.calls[f].futResult = value], i + 1, value)

\* The notification loop and self._waiting_for_values.clear(), which runs only when
\* the loop did not raise.
NotifyWaiters(s, value) ==
    LET r == SetResults(s, 1, value) IN
    IF r.raised THEN r ELSE [r EXCEPT !.waiting_for_values = <<>>]

\* push with the size test made before the append instead of after it.
PushBodyTestBeforeAppend(s, value, nPushed) ==
    LET b == IF Len(s.lists[s.points]) = target_bin_size
             THEN FinishBin(s, nPushed) ELSE s
    IN NotifyWaiters(AppendPoint(b, value), value)

\* push with the waiters notified before the size test and the flush.
PushBodyNotifiesFirst(s, value, nPushed) ==
    LET a == NotifyWaiters(AppendPoint(s, value), value)
    IN IF ~a.raised /\ Len(a.lists[a.points]) = target_bin_size
       THEN FinishBin(a, nPushed) ELSE a

\* push(value), statement by statement.
PushBody(s, value, nPushed) ==
    LET a == AppendPoint(s, value)
        b == IF Len(a.lists[a.points]) = target_bin_size
             THEN FinishBin(a, nPushed) ELSE a
    IN NotifyWaiters(b, value)

\* _timeout_elapsed finishing the bin whatever it holds (asserts stripped).
TimeoutElapsedAlwaysFinishes(s, h) ==
    FinishBin([s EXCEPT !.scheduled = s.scheduled \ {h}], Len(pushed))

\* _timeout_elapsed: "if self._points: pass / else: logger.debug(...)", then
\* self._schedule_timeout(). The handle that fired is no longer pending.
TimeoutElapsedBody(s, h) ==
    ScheduleTimeout([s EXCEPT !.scheduled = s.scheduled \ {h}])

\* The record of a get_new call: f = Future(); append(f); await f
NewWaiter(op) ==
    [op |-> op, state |-> "suspended", fut |-> "pending", futResult |-> None,
     result |-> None, atPush |-> Len(pushed)]

\* The record of a get_latest call that returns self._last_point at once.
ImmediateReturn ==
    [op |-> "get_latest", state |-> "returned", fut |-> "none", futResult |-> None,
     result |-> last_point, atPush |-> Len(pushed)]

(***************************************************************************)
(* SampleChunker actions.                                                  *)
(***************************************************************************)
ChunkerGhostUnchanged ==
    UNCHANGED <<target_bin_size, pushed, pushRaised, nSizeReached,
                nExpiredNonEmpty, nExpiredEmpty>>

\* get_new(), up to its suspension at "await f".
Register(op) ==
    /\ calls' = Append(calls, NewWaiter(op))
    /\ waiting_for_values' = Append(waiting_for_values, Len(calls) + 1)
    /\ UNCHANGED <<lists, points, last_point, timeout, scheduled, timerSeq, finished>>

GetNew ==
    /\ Len(calls) < MaxCalls
    /\ Register("get_new")
    /\ ChunkerGhostUnchanged
    /\ UNCHANGED <<pusherVars, serverVars, wireVars>>

\* get_latest(), up to its return or its suspension inside get_new().
GetLatestBody ==
    IF ~Truthy(last_point)
    THEN Register("get_latest")
    ELSE /\ calls' = Append(calls, ImmediateReturn)
         /\ UNCHANGED <<lists, points, last_point, waiting_for_values, timeout,
                        scheduled, timerSeq, finished>>

GetLatest ==
    /\ Len(calls) < MaxCalls
    /\ GetLatestBody
    /\ ChunkerGhostUnchanged
    /\ UNCHANGED <<pusherVars, serverVars, wireVars>>

\* The event loop resumes a caller whose future was resolved: "return await f".
Resume(c) ==
    /\ calls[c].state = "suspended"
    /\ calls[c].fut = "done"
    /\ calls' = [calls EXCEPT ![c].state = "returned",
                              ![c].result = calls[c].futResult]
    /\ UNCHANGED <<lists, points, last_point, waiting_for_values, timeout,
                   scheduled, timerSeq, finished>>
    /\ ChunkerGhostUnchanged
    /\ UNCHANGED <<pusherVars, serverVars, wireVars>>

\* A caller suspended at "await f" is cancelled (Task.cancel): the future it awaits
\* is cancelled if still pending; nothing removes it from _waiting_for_values.
Abandon(c) ==
    /\ calls[c].state = "suspended"
    /\ calls' = [calls EXCEPT ![c].state = "cancelled",
                              ![c].fut = IF calls[c].fut = "pending"
                                         THEN "cancelled" ELSE calls[c].fut]
    /\ UNCHANGED <<lists, points, last_point, waiting_for_values, timeout,
                   scheduled, timerSeq, finished>>
    /\ ChunkerGhostUnchanged
    /\ UNCHANGED <<pusherVars, serverVars, wireVars>>

\* push(value)
Push(value) ==
    /\ Len(pushed) < MaxPushes
    /\ LET r == PushBody(Chunker, value, Len(pushed) + 1) IN
       /\ SetChunker(r)
       /\ pushRaised' = r.raised
    /\ pushed' = Append(pushed, value)
    /\ nSizeReached' = nSizeReached
                       + (IF Len(Bin) + 1 = target_bin_size THEN 1 ELSE 0)
    /\ UNCHANGED <<target_bin_size, nExpiredNonEmpty, nExpiredEmpty>>
    /\ UNCHANGED <<pusherVars, serverVars, wireVars>>

\* The event loop runs a pending timer handle: _timeout_elapsed()
TimeoutElapsed(h) ==
    /\ nExpiredNonEmpty + nExpiredEmpty < MaxExpiries
    /\ h \in scheduled
    /\ SetChunker(TimeoutElapsedBody(Chunker, h))
    /\ nExpiredNonEmpty' = nExpiredNonEmpty + (IF Bin # <<>> THEN 1 ELSE 0)
    /\ nExpiredEmpty' = nExpiredEmpty + (IF Bin = <<>> THEN 1 ELSE 0)
    /\ UNCHANGED <<target_bin_size, pushed, pushRaised, nSizeReached>>
    /\ UNCHANGED <<pusherVars, serverVars, wireVars>>

(***************************************************************************)
(* InfluxDBPusher.                                                         *)
(***************************************************************************)
\* A capacity test that lets one point too many in.
QueueFullOffByOne(q) == Len(q) > QueueCapacity

\* asyncio.Queue.full(): qsize() >= maxsize
QueueFull(q) == Len(q) >= QueueCapacity

\* self._queue.put_nowait(item) inside "try ... except asyncio.QueueFull": the item
\* goes to the tail, or QueueFull is caught and a warning logged.
PutNowait(q, item) ==
    IF QueueFull(q)
    THEN [queue |-> q, outcome |-> "dropped"]
    ELSE [queue |-> Append(q, item), outcome |-> "enqueued"]

\* A queue that hands out its newest item first (asyncio.LifoQueue).
QueueGetNewest(q) == [item |-> q[Len(q)], queue |-> SubSeq(q, 1, Len(q) - 1)]

\* What "await self._queue.get()" hands to run(), and what it leaves in the queue.
QueueGet(q) == [item |-> Head(q), queue |-> Tail(q)]

\* push(field, values). time.time() is read once per call; the clock is taken to
\* have advanced since the previous call, which also tells the points apart.
PusherPush(field, stats) ==
    /\ bootPc = "serving"
    /\ influx_pusher = "InfluxDBPusher"
    /\ nPushCalls < QueueCapacity + MaxOverflow
    /\ now' = now + 1
    /\ LET item == <<field, stats, now'>>
           r == PutNowait(queue, item)
       IN /\ queue' = r.queue
          /\ lastPush' = r.outcome
          /\ accepted' = IF r.outcome = "enqueued" THEN Append(accepted, item)
                         ELSE accepted
          /\ nDropped' = nDropped + (IF r.outcome = "dropped" THEN 1 ELSE 0)
    /\ nPushCalls' = nPushCalls + 1
    /\ UNCHANGED <<runPc, current, inflight, posts, lastOutcome, warned,
                   cancelRequested>>
    /\ UNCHANGED <<chunkerVars, serverVars, wireVars>>

\* run(): "await self._queue.get()" returns, the body is formatted and
\* client.post(...) is entered; the coroutine suspends until the response.
RunGet ==
    /\ runPc = "get"
    /\ ~cancelRequested
    /\ queue # <<>>
    /\ LET g == QueueGet(queue) IN
       /\ queue' = g.queue
       /\ current' = g.item
       /\ posts' = Append(posts, g.item)
       /\ inflight' = inflight \cup {g.item}
    /\ runPc' = "post"
    /\ UNCHANGED <<now, lastOutcome, warned, cancelRequested, accepted,
                   nPushCalls, nDropped, lastPush>>
    /\ UNCHANGED <<chunkerVars, serverVars, wireVars>>

\* The end of one iteration of "while True": back to the dequeue.
NextIteration(outcome, warning) ==
    /\ runPc' = "get"
    /\ current' = <<>>
    /\ inflight' = inflight \ {current}
    /\ lastOutcome' = outcome
    /\ warned' = warning

\* An exception raised inside the "async with" blocks: run() has no except clause,
\* so it leaves the while loop and ends the task.
Propagate(outcome) ==
    /\ runPc' = "failed"
    /\ current' = <<>>
    /\ inflight' = inflight \ {current}
    /\ lastOutcome' = outcome
    /\ warned' = FALSE

\* The response arrives: "if resp.status != 204" either suspends in
\* "await resp.text()" or ends the iteration.
RunResponse(status) ==
    /\ runPc = "post"
    /\ ~cancelRequested
    /\ IF status # StatusNoContent
       THEN /\ runPc' = "text"
            /\ UNCHANGED <<current, inflight, lastOutcome, warned>>
       ELSE NextIteration("ok", FALSE)
    /\ UNCHANGED <<queue, now, posts, cancelRequested, accepted, nPushCalls,
                   nDropped, lastPush>>
    /\ UNCHANGED <<chunkerVars, serverVars, wireVars>>

\* The response body arrives: logger.warning(...), then the next iteration.
RunText ==
    /\ runPc = "text"
    /\ ~cancelRequested
    /\ NextIteration("rejected", TRUE)
    /\ UNCHANGED <<queue, now, posts, cancelRequested, accepted, nPushCalls,
                   nDropped, lastPush>>
    /\ UNCHANGED <<chunkerVars, serverVars, wireVars>>

\* The HTTP client raises (connection refused, reset, timeout) while the POST or
\* the read of the response body is in progress.
RunTransportError ==
    /\ runPc \in {"post", "text"}
    /\ ~cancelRequested
    /\ Propagate("error")
    /\ UNCHANGED <<queue, now, posts, cancelRequested, accepted, nPushCalls,
                   nDropped, lastPush>>
    /\ UNCHANGED <<chunkerVars, serverVars, wireVars>>

\* stop(), registered with atexit only when a pusher exists: t.cancel(), then the
\* hook sits in loop.run_until_complete(t).
RequestCancel ==
    /\ bootPc = "serving"
    /\ influx_pusher = "InfluxDBPusher"
    /\ ~cancelRequested
    /\ cancelRequested' = TRUE
    /\ stopPc' = "waiting"
    /\ UNCHANGED <<queue, now, runPc, current, inflight, posts, lastOutcome, warned,
                   accepted, nPushCalls, nDropped, lastPush>>
    /\ UNCHANGED <<influxdb_endpoint, influxdb_tags, influx_pusher, bootPc>>
    /\ UNCHANGED <<chunkerVars, wireVars>>

\* An exception handler around the loop body that also catches CancelledError: the
\* cancellation is swallowed and the loop goes on.
RunCancelledSwallowed ==
    /\ cancelRequested
    /\ runPc \in {"get", "post", "text"}
    /\ runPc' = "get"
    /\ current' = <<>>
    /\ inflight' = inflight \ {current}
    /\ cancelRequested' = FALSE
    /\ UNCHANGED <<queue, now, posts, lastOutcome, warned,
                   accepted, nPushCalls, nDropped, lastPush>>
    /\ UNCHANGED <<chunkerVars, serverVars, wireVars>>

\* loop.run_until_complete(t): CancelledError is thrown into run() at the await it
\* is suspended on; the "async with" blocks close the request and the session.
RunCancelled ==
    /\ cancelRequested
    /\ runPc \in {"get", "post", "text"}
    /\ runPc' = "cancelled"
    /\ current' = <<>>
    /\ inflight' = inflight \ {current}
    /\ UNCHANGED <<queue, now, posts, lastOutcome, warned, cancelRequested,
                   accepted, nPushCalls, nDropped, lastPush>>
    /\ UNCHANGED <<chunkerVars, serverVars, wireVars>>

\* stop(): loop.run_until_complete(t) returns once the task is done. It raises
\* CancelledError for a cancelled task, which stop() catches; for a task that had
\* already ended with an exception it raises that exception, which stop() does not
\* catch.
StopReturns ==
    /\ stopPc = "waiting"
    /\ runPc \in {"cancelled", "failed"}
    /\ stopPc' = IF runPc = "cancelled" THEN "returned" ELSE "raised"
    /\ UNCHANGED <<influxdb_endpoint, influxdb_tags, influx_pusher, bootPc>>
    /\ UNCHANGED <<chunkerVars, pusherVars, wireVars>>

(***************************************************************************)
(* influxdb_pusher_from_args and run_simple_rpc_server.                    *)
(***************************************************************************)
\* Python truth value of an argument: None and the empty string count as false.
TruthyArg(a) == a # <<>> /\ a[1] # ""

\* influxdb_pusher_from_args with the tags tested before the endpoint.
FromArgsTagsFirst(endpoint, tags) ==
    IF ~TruthyArg(tags) THEN "ValueError"
    ELSE IF ~TruthyArg(endpoint) THEN "None"
    ELSE "InfluxDBPusher"

\* influxdb_pusher_from_args: None, raise ValueError, or InfluxDBPusher(...)
FromArgs(endpoint, tags) ==
    IF ~TruthyArg(endpoint) THEN "None"
    ELSE IF ~TruthyArg(tags) THEN "ValueError"
    ELSE "InfluxDBPusher"

\* influx_pusher = influxdb_pusher_from_args(args); an exception ends
\* run_simple_rpc_server there.
PusherFromArgs ==
    /\ bootPc = "args"
    /\ influx_pusher' = FromArgs(influxdb_endpoint, influxdb_tags)
    /\ bootPc' = IF influx_pusher' = "ValueError" THEN "aborted" ELSE "task"
    /\ UNCHANGED <<influxdb_endpoint, influxdb_tags, stopPc>>
    /\ UNCHANGED <<chunkerVars, pusherVars, wireVars>>

\* "if influx_pusher: t = asyncio.ensure_future(influx_pusher.run())", then the
\* interface is set up and the loop runs.
StartTask ==
    /\ bootPc = "task"
    /\ runPc' = IF influx_pusher = "InfluxDBPusher" THEN "get" ELSE runPc
    /\ bootPc' = "serving"
    /\ UNCHANGED <<queue, now, current, inflight, posts, lastOutcome, warned,
                   cancelRequested, accepted, nPushCalls, nDropped, lastPush>>
    /\ UNCHANGED <<influxdb_endpoint, influxdb_tags, influx_pusher, stopPc>>
    /\ UNCHANGED <<chunkerVars, wireVars>>

(***************************************************************************)
(* InfluxDBPusher.run: the request body.                                   *)
(***************************************************************************)
DigitChars == <<"0", "1", "2", "3", "4", "5", "6", "7", "8", "9">>

\* "{}".format(n) for an int n >= 0
RECURSIVE FormatNat(_)
FormatNat(n) ==
    IF n < 10 THEN <<DigitChars[n + 1]>>
    ELSE FormatNat(n \div 10) \o <<DigitChars[(n % 10) + 1]>>

\* "{}".format(v) for an int
FormatValue(v) == IF v < 0 THEN <<"-">> \o FormatNat(-v) ELSE FormatNat(v)

\* "{}={}".format(k, v)
FormatPair(kv) == kv[1] \o <<"=">> \o FormatValue(kv[2])

\* ",".join(strs)
RECURSIVE Join(_)
Join(strs) ==
    IF strs = <<>> THEN <<>>
    ELSE IF Len(strs) = 1 THEN strs[1]
    ELSE strs[1] \o <<",">> \o Join(Tail(strs))

\* round(timestamp * 1e9) for a timestamp of t half nanoseconds: Python 3 rounds a
\* float to the nearest integer, a tie to the even one.
RoundNanoseconds(t) ==
    LET f == t \div 2 IN
    IF t % 2 = 0 THEN f
    ELSE IF f % 2 = 0 THEN f ELSE f + 1

\* The body with the timestamp left in seconds.
WireLineSeconds(field, tags, stats, timestamp) ==
    field \o <<",">> \o tags \o <<" ">>
          \o Join([i \in 1 .. Len(stats) |-> FormatPair(stats[i])])
          \o <<" ">> \o FormatValue(timestamp \div 2000000000)

\* values = ",".join(...); body = "{},{} {} {}".format(field, self.tags, values,
\* round(timestamp * 1e9))
WireLine(field, tags, stats, timestamp) ==
    LET values == Join([i \in 1 .. Len(stats) |-> FormatPair(stats[i])]) IN
    field \o <<",">> \o tags \o <<" ">> \o values
          \o <<" ">> \o FormatValue(RoundNanoseconds(timestamp))

\* One iteration of run() from the dequeue to the body handed to client.post.
WireFormat ==
    /\ wirePc = "dequeued"
    /\ body' = WireLine(wirePoint.field, wireTags, wirePoint.stats, wirePoint.timestamp)
    /\ wirePc' = "formatted"
    /\ UNCHANGED <<wirePoint, wireTags>>
    /\ UNCHANGED <<chunkerVars, pusherVars, serverVars>>

\* A point just dequeued by run(), and the pusher's tags.
WireInit(fields, tags, stats, timestamps) ==
    /\ wirePoint \in [field : fields, stats : stats, timestamp : timestamps]
    /\ wireTags \in tags
    /\ body = <<>>
    /\ wirePc = "dequeued"

\* The arguments as parsed, before influxdb_pusher_from_args is called.
ServerInit(endpoints, tags) ==
    /\ influxdb_endpoint \in endpoints
    /\ influxdb_tags \in tags
    /\ influx_pusher = "unset"
    /\ bootPc = "args"
    /\ stopPc = "idle"

\* __init__
ChunkerInit ==
    /\ target_bin_size \in 1 .. MaxTargetSize
    /\ lists = << <<>> >>
    /\ points = 1
    /\ last_point = None
    /\ waiting_for_values = <<>>
    /\ calls = <<>>
    /\ timeout = 1
    /\ scheduled = {1}
    /\ timerSeq = 1
    /\ finished = <<>>
    /\ pushed = <<>>
    /\ pushRaised = FALSE
    /\ nSizeReached = 0
    /\ nExpiredNonEmpty = 0
    /\ nExpiredEmpty = 0

\* InfluxDBPusher.__init__
PusherInit ==
    /\ queue = <<>>
    /\ now = 0
    /\ runPc = "unstarted"
    /\ current = <<>>
    /\ inflight = {}
    /\ posts = <<>>
    /\ lastOutcome = "none"
    /\ warned = FALSE
    /\ cancelRequested = FALSE
    /\ accepted = <<>>
    /\ nPushCalls = 0
    /\ nDropped = 0
    /\ lastPush = "none"

\* A chunker on its own: no arguments given, no server started.
Init ==
    /\ ChunkerInit
    /\ PusherInit
    /\ ServerInit({<<>>}, {<<>>})
    /\ WireInit({<<"m">>}, {<<"l", "=", "1">>}, {<<>>}, {0})

Next ==
    \/ GetNew
    \/ GetLatest
    \/ \E c \in 1 .. Len(calls) : Resume(c)
    \/ \E c \in 1 .. Len(calls) : Abandon(c)
    \/ \E value \in Values : Push(value)
    \/ \E h \in scheduled : TimeoutElapsed(h)

Spec == Init /\ [][Next]_vars

PusherNext ==
    \/ PusherFromArgs
    \/ StartTask
    \/ \E field \in Fields, stats \in Stats : PusherPush(field, stats)
    \/ RunGet
    \/ \E status \in Statuses : RunResponse(status)
    \/ RunText
    \/ RunTransportError
    \/ RequestCancel
    \/ RunCancelled
    \/ StopReturns

\* The server and its pusher, from the parsed arguments on, beside a chunker that
\* is constructed and then left idle.
PusherSpecInit ==
    /\ ChunkerInit
    /\ target_bin_size = 1
    /\ PusherInit
    /\ ServerInit(EndpointArgs, TagsArgs)
    /\ WireInit({<<"m">>}, {<<"l", "=", "1">>}, {<<>>}, {0})

PusherSpec == PusherSpecInit /\ [][PusherNext]_vars

\* The body built by run() for each point and tag string of the input sets.
WireNext == WireFormat

WireSpecInit ==
    /\ ChunkerInit
    /\ target_bin_size = 1
    /\ PusherInit
    /\ ServerInit({<<>>}, {<<>>})
    /\ WireInit(WireFields, WireTags, WireStats, WireTimestamps)

WireSpec == WireSpecInit /\ [][WireNext]_vars

\* loop.run_until_complete(t) runs the event loop until the task is done, so a
\* cancelled task does get its CancelledError and the hook does get its result.
PusherFairSpec ==
    PusherSpec /\ WF_vars(RunCancelled) /\ WF_vars(StopReturns)

(***************************************************************************)
(* Properties of the SampleChunker.                                        *)
(***************************************************************************)
\* The number of pushes before the i-th invocation of bin_finished's bin began.
FlushStart(i) == IF i = 1 THEN 0 ELSE finished[i - 1].atPush

\* The number of pushes at the last invocation of bin_finished.
LastFlushAt == IF finished = <<>> THEN 0 ELSE finished[Len(finished)].atPush

\* A step in which the bin timer fired while the bin held values.
ExpiryOnNonEmptyBin == nExpiredNonEmpty' = nExpiredNonEmpty + 1

\* A step in which the bin timer fired while the bin was empty.
ExpiryOnEmptyBin == nExpiredEmpty' = nExpiredEmpty + 1

\* C1: whenever the bin timer fires while the bin is non-empty, bin_finished is
\* invoked exactly once with the bin's contents, the bin is replaced by an empty one
\* and a new timer is scheduled; hence the number of bin_finished invocations equals
\* the number of times the size threshold was reached plus the number of timer
\* expiries on a non-empty bin.
C1_TimerExpiryFlushes ==
    /\ [](Len(finished) = nSizeReached + nExpiredNonEmpty)
    /\ [][ExpiryOnNonEmptyBin =>
            /\ Len(finished') = Len(finished) + 1
            /\ finished'[Len(finished')].bin = Bin
            /\ Bin' = <<>>
            /\ timeout' # timeout
            /\ scheduled' = {timeout'}]_vars

\* C2: bin_finished is invoked during exactly the push that makes the bin hold
\* target_bin_size values since the last flush, and during no push that leaves it
\* with fewer; its argument is the list of the values pushed since the last flush,
\* in push order, the triggering value last.
C2_SizeTrigger ==
    /\ \A i \in 1 .. Len(finished) :
          /\ finished[i].atPush - FlushStart(i) = target_bin_size
          /\ finished[i].bin = SubSeq(pushed, FlushStart(i) + 1, finished[i].atPush)
    /\ Len(pushed) - LastFlushAt < target_bin_size
    /\ Bin = SubSeq(pushed, LastFlushAt + 1, Len(pushed))

\* C2's case: a bin was flushed by its second push, and a later push left the new
\* bin with fewer values than the target.
C2_Witness ==
    /\ target_bin_size = 2
    /\ Len(finished) = 1
    /\ Len(pushed) = 3
    /\ finished[1].bin = <<pushed[1], pushed[2]>>
    /\ pushed[1] # pushed[2]

\* C3: bin_finished is never invoked with an empty bin; when the timer fires while
\* the bin is empty, no callback is invoked, the bin, last_value and the waiters are
\* unchanged, and a fresh timer is scheduled.
C3_EmptyBinNeverFinished ==
    /\ [](\A i \in 1 .. Len(finished) : finished[i].bin # <<>>)
    /\ [][ExpiryOnEmptyBin =>
            /\ finished' = finished
            /\ Bin' = <<>>
            /\ points' = points
            /\ last_point' = last_point
            /\ waiting_for_values' = waiting_for_values
            /\ calls' = calls
            /\ timeout' > timerSeq
            /\ scheduled' = {timeout'}]_vars

\* C3's case: the timer has fired on an empty bin while a caller was waiting, and a
\* bin has been finished.
C3_Witness ==
    /\ nExpiredEmpty >= 1
    /\ finished # <<>>
    /\ waiting_for_values # <<>>

\* C4: every get_new caller registered before a push(v) is resolved by that push
\* with v, and the waiter set is empty afterwards; a caller registered after the
\* push is resolved only by a strictly later push. (A caller that was itself
\* cancelled is not expected to receive anything.)
C4_FanOut ==
    /\ \A c \in 1 .. Len(calls) :
          (calls[c].fut # "none" /\ calls[c].state # "cancelled") =>
             IF Len(pushed) > calls[c].atPush
             THEN /\ calls[c].fut = "done"
                  /\ calls[c].futResult = pushed[calls[c].atPush + 1]
             ELSE calls[c].fut = "pending"
    /\ \A i \in 1 .. Len(waiting_for_values) :
          calls[waiting_for_values[i]].atPush = Len(pushed)

\* C5: after at least one push, get_latest returns at once with the most recently
\* pushed value, without registering a waiter and without suspending.
C5_GetLatestAfterPush ==
    \A c \in 1 .. Len(calls) :
       (calls[c].op = "get_latest" /\ calls[c].atPush > 0) =>
          /\ calls[c].fut = "none"
          /\ calls[c].state = "returned"
          /\ calls[c].result = pushed[calls[c].atPush]

\* C6: when no value has ever been pushed, get_latest registers one single-shot
\* waiter and suspends as get_new does, and it returns the first value pushed
\* afterwards.
C6_GetLatestBeforePush ==
    \A c \in 1 .. Len(calls) :
       (calls[c].op = "get_latest" /\ calls[c].atPush = 0) =>
          /\ calls[c].fut # "none"
          /\ Cardinality({i \in 1 .. Len(waiting_for_values) :
                             waiting_for_values[i] = c}) <= 1
          /\ (Len(pushed) = 0 /\ calls[c].state # "cancelled") =>
                /\ calls[c].state = "suspended"
                /\ calls[c].fut = "pending"
                /\ \E i \in 1 .. Len(waiting_for_values) : waiting_for_values[i] = c
          /\ (Len(pushed) > 0 /\ calls[c].state # "cancelled") =>
                /\ calls[c].fut = "done"
                /\ calls[c].futResult = pushed[1]
          /\ calls[c].state = "returned" => calls[c].result = pushed[1]

\* The concatenation of the bins handed to bin_finished by the invocations fs.
RECURSIVE FinishedValues(_)
FinishedValues(fs) ==
    IF fs = <<>> THEN <<>>
    ELSE FinishedValues(SubSeq(fs, 1, Len(fs) - 1)) \o fs[Len(fs)].bin

\* A step that is a call of SampleChunker.push.
IsPush == Len(pushed') = Len(pushed) + 1

\* A step in which the bin timer fired.
IsExpiry == nExpiredNonEmpty' + nExpiredEmpty' = nExpiredNonEmpty + nExpiredEmpty + 1

\* C12: push(value) always succeeds: after any interleaving of push, get_new,
\* get_latest, timer expiry and abandonment of a suspended caller it completes
\* without error, appends the value to the bin, sets last_value and leaves the
\* waiter set empty.
C12_PushAlwaysSucceeds ==
    [][IsPush =>
         /\ ~pushRaised'
         /\ waiting_for_values' = <<>>
         /\ last_point' = pushed'[Len(pushed')]
         /\ FinishedValues(finished') \o Bin'
               = (FinishedValues(finished) \o Bin) \o <<pushed'[Len(pushed')]>>]_vars

\* C14: every pushed value is eventually passed to bin_finished as long as the bin
\* timer keeps firing, because a bin never stays non-empty across a timer expiry:
\* once the timer has fired, every value pushed so far has been handed to
\* bin_finished.
C14_BoundedStaleness ==
    [][IsExpiry =>
         /\ Bin' = <<>>
         /\ FinishedValues(finished') = pushed']_vars

\* C15: between operations exactly one bin timer is pending, the one held in
\* _timeout; a flush cancels the pending timer before the callback runs and
\* schedules exactly one new one, so the timer that was pending before a flush never
\* fires afterwards; a timer expiry reschedules exactly one timer.
C15_TimerDiscipline ==
    /\ scheduled = {timeout}
    /\ timeout = timerSeq
    /\ timerSeq = 1 + Len(finished) + nExpiredEmpty + nExpiredNonEmpty
    /\ \A i \in 1 .. Len(finished) : finished[i].scheduled = {}

\* C15's case: a timer has expired, and a flush has cancelled a timer since.
C15_Witness ==
    /\ nExpiredEmpty + nExpiredNonEmpty >= 1
    /\ Len(finished) >= 1
    /\ timerSeq >= 3

C18_BinReplaced ==
    \A i \in 1 .. Len(finished) :
       /\ lists[finished[i].arg] = finished[i].bin
       /\ finished[i].arg # points
       /\ \A j \in 1 .. Len(finished) : finished[i].arg = finished[j].arg => i = j

\* C18's case: values were pushed after a bin was handed to the callback.
C18_Witness ==
    /\ Len(finished) >= 1
    /\ Bin # <<>>
    /\ Len(pushed) > finished[Len(finished)].atPush

\* C19: the bins passed to bin_finished so far, in invocation order, followed by
\* the current bin, are the values pushed so far, in push order.
C19_NoValueLost == FinishedValues(finished) \o Bin = pushed

\* C19's case: a bin of two different values has been finished and one more value
\* waits in the current bin.
C19_Witness ==
    /\ Len(finished) = 1
    /\ Len(Bin) = 1
    /\ Len(finished[1].bin) = 2
    /\ pushed[1] # pushed[2]

\* C20: between operations the current bin holds between 0 and
\* target_bin_size - 1 values, and every bin passed to bin_finished holds between
\* 1 and target_bin_size values.
C20_BinSizeBound ==
    /\ Len(Bin) >= 0
    /\ Len(Bin) <= target_bin_size - 1
    /\ \A i \in 1 .. Len(finished) :
          /\ Len(finished[i].bin) >= 1
          /\ Len(finished[i].bin) <= target_bin_size

\* C20's case: the bin is one short of a target of two, after a flush and a timer
\* expiry.
C20_Witness ==
    /\ target_bin_size = 2
    /\ Len(Bin) = 1
    /\ Len(finished) = 1
    /\ nExpiredEmpty + nExpiredNonEmpty >= 1

(***************************************************************************)
(* Properties of the InfluxDBPusher.                                       *)
(***************************************************************************)
\* A step that is a call of InfluxDBPusher.push.
IsPusherPush == nPushCalls' = nPushCalls + 1

\* The points of the first n push calls.
FirstPoints(n) == [i \in 1 .. n |-> <<"temp", <<42>>, i>>]

\* C7: the queue never holds more than 128 points; a push on a non-full queue
\* appends exactly one point at the tail; a push on a full queue leaves the queue
\* unchanged and returns normally; so K > 128 pushes before any drain drop exactly
\* K - 128 points and keep the first 128.
C7_BoundedQueue ==
    /\ [](Len(queue) <= QueueCapacity)
    /\ []((posts = <<>> /\ nPushCalls > QueueCapacity) =>
            /\ nDropped = nPushCalls - QueueCapacity
            /\ queue = FirstPoints(QueueCapacity))
    /\ [][IsPusherPush =>
            IF Len(queue) < QueueCapacity
            THEN /\ Len(queue') = Len(queue) + 1
                 /\ SubSeq(queue', 1, Len(queue)) = queue
                 /\ queue'[Len(queue')][3] = now'
                 /\ lastPush' = "enqueued"
                 /\ nDropped' = nDropped
            ELSE /\ queue' = queue
                 /\ lastPush' = "dropped"
                 /\ nDropped' = nDropped + 1]_vars

\* C7's case: more pushes than the capacity before any drain.
C7_Witness ==
    /\ posts = <<>>
    /\ nPushCalls = QueueCapacity + 2
    /\ nDropped = 2
    /\ lastPush = "dropped"

\* C8: every point push accepted is removed from the queue exactly once by the
\* drain task and is the subject of exactly one POST attempt: never more than one,
\* never re-enqueued, and never zero, so a point still queued has a drain task that
\* will come for it unless the task was cancelled.
C8_NoLossNoDuplication ==
    /\ accepted = posts \o queue
    /\ \A i, j \in 1 .. Len(posts) : posts[i] = posts[j] => i = j
    /\ (queue # <<>> /\ ~cancelRequested) => runPc \in {"get", "post", "text"}

\* C9: the drain task never terminates because of a delivery failure; after a POST
\* that ends in a transport error or a status other than 204 it logs a warning and
\* goes on; only cancellation ends the loop.
C9_FailureIsolation ==
    /\ runPc \in {"failed", "cancelled"} => cancelRequested
    /\ lastOutcome \in {"rejected", "error"} => warned

\* C10: the points POSTed are, in order, a prefix of the points accepted, and a
\* POST is completed before the next one is issued.
C10_FifoDelivery ==
    /\ Len(posts) <= Len(accepted)
    /\ posts = SubSeq(accepted, 1, Len(posts))
    /\ Cardinality(inflight) <= 1
    /\ inflight # {} => inflight = {posts[Len(posts)]}

\* C10's case: several points have been POSTed, one POST was rejected, one is in
\* flight, and more points wait.
C10_Witness ==
    /\ Len(posts) >= 3
    /\ lastOutcome = "rejected"
    /\ inflight # {}
    /\ Len(queue) >= 2

(***************************************************************************)
(* Properties of the server start-up and shutdown.                         *)
(***************************************************************************)
\* An argument is configured when it is given and not empty.
Configured(a) == a # <<>> /\ a # <<"">>

\* C11: once influxdb_pusher_from_args has run: with no endpoint configured there
\* is no pusher (whatever the tags), and then no drain task, no queue content and
\* no POST; with an endpoint but no tags the start-up has failed with ValueError;
\* a pusher exists exactly when both are configured.
C11_PusherConfiguration ==
    /\ bootPc = "args" => influx_pusher = "unset"
    /\ bootPc # "args" =>
        /\ ~Configured(influxdb_endpoint) => influx_pusher = "None"
        /\ (Configured(influxdb_endpoint) /\ ~Configured(influxdb_tags)) =>
               (influx_pusher = "ValueError" /\ bootPc = "aborted")
        /\ influx_pusher = "InfluxDBPusher" <=>
               (Configured(influxdb_endpoint) /\ Configured(influxdb_tags))
    /\ influx_pusher # "InfluxDBPusher" =>
        /\ runPc = "unstarted"
        /\ stopPc = "idle"
        /\ nPushCalls = 0 /\ queue = <<>> /\ posts = <<>> /\ inflight = {}
    /\ bootPc = "aborted" <=> influx_pusher = "ValueError"

\* C11's case: tags are given but no endpoint, and the server runs without a
\* pusher.
C11_Witness ==
    /\ bootPc = "serving"
    /\ influx_pusher = "None"
    /\ influxdb_endpoint = <<>>
    /\ Configured(influxdb_tags)

\* C17: a drain task that is cancelled while it waits (for a point, for the
\* response, for the response text) terminates as cancelled; from then on it
\* takes nothing from the queue and issues no POST, and the POST that was in
\* flight is gone; the shutdown hook returns normally only once the task has
\* terminated, and it does return.
C17_Cancellation ==
    /\ (cancelRequested /\ runPc \in {"get", "post", "text"}) ~> (runPc = "cancelled")
    /\ [][runPc = "cancelled" =>
            /\ runPc' = "cancelled"
            /\ posts' = posts
            /\ inflight' = {}
            /\ accepted' = posts' \o queue']_vars
    /\ [](runPc = "cancelled" => (inflight = {} /\ current = <<>>))
    /\ [](stopPc = "returned" => runPc = "cancelled")
    /\ (stopPc = "waiting") ~> (stopPc \in {"returned", "raised"})

\* C17's case: the task was cancelled while a POST was in flight and points were
\* still queued; the hook has returned and the points are still in the queue.
C17_Witness ==
    /\ stopPc = "returned"
    /\ runPc = "cancelled"
    /\ Len(posts) >= 1
    /\ queue # <<>>
    /\ lastOutcome = "none"

(***************************************************************************)
(* Properties of the request body.                                         *)
(***************************************************************************)
IsDigit(c) == \E d \in 1 .. 10 : DigitChars[d] = c

DigitValue(c) == (CHOOSE d \in 1 .. 10 : DigitChars[d] = c) - 1

\* The number a decimal numeral denotes.
RECURSIVE Number(_)
Number(ds) ==
    IF ds = <<>> THEN 0
    ELSE Number(SubSeq(ds, 1, Len(ds) - 1)) * 10 + DigitValue(ds[Len(ds)])

SignedNumber(x) == IF x[1] = "-" THEN 0 - Number(Tail(x)) ELSE Number(x)

IsNumeral(x) ==
    /\ x # <<>>
    /\ \A i \in 1 .. Len(x) : IsDigit(x[i]) \/ (i = 1 /\ x[i] = "-" /\ Len(x) > 1)

\* How many characters at the front of s can belong to a number.
RECURSIVE NumeralLen(_)
NumeralLen(s) ==
    IF s = <<>> \/ ~(IsDigit(s[1]) \/ s[1] = "-") THEN 0
    ELSE 1 + NumeralLen(Tail(s))

\* How many digits s ends with.
RECURSIVE TrailingDigits(_)
TrailingDigits(s) ==
    IF s = <<>> \/ ~IsDigit(s[Len(s)]) THEN 0
    ELSE 1 + TrailingDigits(SubSeq(s, 1, Len(s) - 1))

\* m is "<k1>=<v1>,<k2>=<v2>,..." for the pairs of stats, in their order.
RECURSIVE PairsMatch(_, _)
PairsMatch(m, stats) ==
    IF stats = <<>> THEN m = <<>>
    ELSE
        LET k == stats[1][1]
            afterKey == SubSeq(m, Len(k) + 2, Len(m))
            n == NumeralLen(afterKey)
            rest == SubSeq(afterKey, n + 1, Len(afterKey))
        IN  /\ Len(m) >= Len(k) + 2
            /\ SubSeq(m, 1, Len(k)) = k
            /\ m[Len(k) + 1] = "="
            /\ IsNumeral(SubSeq(afterKey, 1, n))
            /\ SignedNumber(SubSeq(afterKey, 1, n)) = stats[1][2]
            /\ IF Len(stats) = 1 THEN rest = <<>>
               ELSE /\ rest # <<>>
                    /\ rest[1] = ","
                    /\ PairsMatch(Tail(rest), Tail(stats))

\* line is "<field>,<tags> <pairs> <ns>", ns being timestamp (in half
\* nanoseconds) as a whole number of nanoseconds.
MatchesTemplate(line, field, tags, stats, timestamp) ==
    LET head == field \o <<",">> \o tags \o <<" ">>
        d == TrailingDigits(line)
        ns == Number(SubSeq(line, Len(line) - d + 1, Len(line)))
    IN  /\ d >= 1
        /\ Len(line) >= Len(head) + 1 + d
        /\ SubSeq(line, 1, Len(head)) = head
        /\ line[Len(line) - d] = " "
        /\ PairsMatch(SubSeq(line, Len(head) + 1, Len(line) - d - 1), stats)
        /\ 2 * ns - timestamp \in {-1, 0, 1}

ExampleField == <<"t", "e", "m", "p">>
ExampleTags == <<"l", "o", "c", "=", "l", "a", "b", "1">>
ExampleStats == << <<(<<"v", "a", "l", "u", "e">>), 42>> >>

\* 'temp,loc=lab1 value=42 <T in ns>' for the timestamps of WireTimestamps
ExampleLine(timestamp) ==
    <<"t", "e", "m", "p", ",", "l", "o", "c", "=", "l", "a", "b", "1", " ",
      "v", "a", "l", "u", "e", "=", "4", "2", " ">> \o
    CASE timestamp = 0 -> <<"0">>
      [] timestamp = 4 -> <<"2">>
      [] timestamp = 5 -> <<"2">>
      [] timestamp = 7 -> <<"4">>
      [] timestamp = 2000000001 -> <<"1", "0", "0", "0", "0", "0", "0", "0", "0", "0">>
      [] OTHER -> <<"?">>

Has(str, chars) == \E i \in 1 .. Len(str) : str[i] \in chars

\* Inputs whose parts hold none of the characters that separate the parts.
PlainFields == {f \in WireFields : ~Has(f, {",", " "})}
PlainTags == {g \in WireTags : ~Has(g, {" "})}
PlainStats ==
    {st \in WireStats : \A i \in 1 .. Len(st) : ~Has(st[i][1], {",", " ", "="})}

\* No other point of the given sets yields this body: field, tags and values can
\* be told from it.
Recoverable(fields, tags, stats) ==
    \A f \in fields, g \in tags, st \in stats, t \in WireTimestamps :
        WireLine(f, g, st, t) = body =>
            (f = wirePoint.field /\ g = wireTags /\ st = wirePoint.stats)

WireFormatExact ==
    /\ MatchesTemplate(body, wirePoint.field, wireTags, wirePoint.stats,
                       wirePoint.timestamp)
    /\ (/\ wirePoint.field = ExampleField
        /\ wireTags = ExampleTags
        /\ wirePoint.stats = ExampleStats) => body = ExampleLine(wirePoint.timestamp)

\* C13, as claimed: the body is exactly '<field>,<tags> <k1>=<v1>,... <T in ns>',
\* the example gives 'temp,loc=lab1 value=42 <T in ns>', and field, tags and
\* values are recoverable from the line, whatever they are.
C13_WireFormatRoundTrip ==
    wirePc = "formatted" =>
        /\ WireFormatExact
        /\ Recoverable(WireFields, WireTags, WireStats)

\* C13, amended: the same format and example; field, tags and values are
\* recoverable when the field holds no comma or space, the tags no space and the
\* keys no comma, space or '=' (the values being integers).
C13_WireFormat ==
    wirePc = "formatted" =>
        /\ WireFormatExact
        /\ (/\ wirePoint.field \in PlainFields
            /\ wireTags \in PlainTags
            /\ wirePoint.stats \in PlainStats)
           => Recoverable(PlainFields, PlainTags, PlainStats)

\* C13's case: the example point, at a timestamp half way between two
\* nanoseconds, has been formatted; so has a point with two values.
C13_Witness ==
    /\ wirePc = "formatted"
    /\ wirePoint.field = ExampleField
    /\ wireTags = ExampleTags
    /\ wirePoint.stats = ExampleStats
    /\ wirePoint.timestamp = 5
    /\ body = ExampleLine(5)

====
